---------------------------- MODULE Spec2Model ----------------------------
(***************************************************************************)
(* EduMate: recommendation, preference filtering and feedback logging.     *)
(*                                                                         *)
(* The state is the content of the SQLite database the handlers open       *)
(* (content, user_preferences, users.interests, user_activities,           *)
(* recommendations), the wall clock, and the last response a handler       *)
(* produced.  Every handler is one atomic action: it runs on one           *)
(* connection and commits once.                                            *)
(*                                                                         *)
(* Text columns that the code parses are modelled as sequences of symbols: *)
(* the punctuation characters the parsers look at, and words (maximal runs *)
(* of other characters, kept atomic).                                      *)
(***************************************************************************)
EXTENDS Integers, Sequences, FiniteSets, TLC

\* SQL NULL and Python None: of a word, of a text and of an integer column
NULL == "NULL"
NullText == <<"NULL">>
NullId == 0

(***************************************************************************)
(* Text                                                                    *)
(***************************************************************************)
LB == "["
RB == "]"
SQ == "'"
DQ == "\""
COMMA == ","
SP == " "

Punct == {LB, RB, SQ, DQ, COMMA, SP}

\* Words that are JSON numbers when they stand unquoted.
NumericWords == {"1", "6"}

RECURSIVE Concat(_)
Concat(ss) == IF ss = <<>> THEN <<>> ELSE Head(ss) \o Concat(Tail(ss))

\* str.replace(old, new) for one-character old and new
Replace(s, old, new) == [i \in 1..Len(s) |-> IF s[i] = old THEN new ELSE s[i]]

\* str.replace(old, '') for a one-character old
Remove(s, old) == SelectSeq(s, LAMBDA ch : ch # old)

RECURSIVE LStrip(_, _)
LStrip(s, chars) ==
    IF s # <<>> /\ Head(s) \in chars THEN LStrip(Tail(s), chars) ELSE s

RECURSIVE RStrip(_, _)
RStrip(s, chars) ==
    IF s # <<>> /\ s[Len(s)] \in chars
    THEN RStrip(SubSeq(s, 1, Len(s) - 1), chars) ELSE s

\* str.strip(chars); str.strip() strips white space
Strip(s, chars) == RStrip(LStrip(s, chars), chars)

\* str.split(sep): the pieces between the separators, empty pieces included
RECURSIVE SplitFrom(_, _, _)
SplitFrom(s, sep, cur) ==
    IF s = <<>> THEN <<cur>>
    ELSE IF Head(s) = sep THEN <<cur>> \o SplitFrom(Tail(s), sep, <<>>)
    ELSE SplitFrom(Tail(s), sep, Append(cur, Head(s)))

Split(s, sep) == SplitFrom(s, sep, <<>>)

\* str.startswith for a one-character prefix
StartsWith(s, ch) == s # <<>> /\ Head(s) = ch

\* [t.strip() for t in pieces if t.strip()]
StripTokens(pieces) ==
    SelectSeq([i \in 1..Len(pieces) |-> Strip(pieces[i], {SP})],
              LAMBDA t : t # <<>>)

RECURSIVE PyReprItems(_)
PyReprItems(list) ==
    IF list = <<>> THEN <<>>
    ELSE <<SQ>> \o Head(list) \o <<SQ>>
         \o (IF Len(list) > 1 THEN <<COMMA, SP>> ELSE <<>>)
         \o PyReprItems(Tail(list))

\* str(list) of a list of strings that hold no quote: ['a', 'b']
PyStr(list) == <<LB>> \o PyReprItems(list) \o <<RB>>

(***************************************************************************)
(* json.loads, for the documents the alphabet can spell: arrays, strings,  *)
(* numbers.  The result is [ok, val]; a nested array is the element        *)
(* NestedList, which no query parameter can be bound to.                   *)
(***************************************************************************)
NestedList == <<"<list>">>

SkipWs(s, i) ==
    LET rest == {j \in i..Len(s) : s[j] # SP}
    IN  IF rest = {} THEN Len(s) + 1
        ELSE CHOOSE j \in rest : \A k \in rest : j <= k

\* a string literal opening at s[i] = DQ: [ok, val, next]
JsonString(s, i) ==
    LET close == {j \in (i + 1)..Len(s) : s[j] = DQ}
    IN  IF close = {} THEN [ok |-> FALSE, val |-> <<>>, next |-> i]
        ELSE LET j == CHOOSE j \in close : \A k \in close : j <= k
             IN  [ok |-> TRUE, val |-> SubSeq(s, i + 1, j - 1), next |-> j + 1]

\* a number starting at s[i]: the maximal run of numeric words
JsonNumber(s, i) ==
    LET stop == {j \in i..Len(s) : s[j] \notin NumericWords}
        e == IF stop = {} THEN Len(s) + 1
             ELSE CHOOSE j \in stop : \A k \in stop : j <= k
    IN  [ok |-> TRUE, val |-> SubSeq(s, i, e - 1), next |-> e]

RECURSIVE JsonValue(_, _)
RECURSIVE JsonElements(_, _, _)

\* an array opening at s[i] = LB: [ok, val, next]
JsonArray(s, i) ==
    LET j == SkipWs(s, i + 1)
    IN  IF j <= Len(s) /\ s[j] = RB
        THEN [ok |-> TRUE, val |-> <<>>, next |-> j + 1]
        ELSE JsonElements(s, j, <<>>)

JsonValue(s, i) ==
    IF i > Len(s) THEN [ok |-> FALSE, val |-> <<>>, next |-> i]
    ELSE IF s[i] = DQ THEN JsonString(s, i)
    ELSE IF s[i] = LB
         THEN LET a == JsonArray(s, i)
              IN  [ok |-> a.ok, val |-> NestedList, next |-> a.next]
    ELSE IF s[i] \in NumericWords THEN JsonNumber(s, i)
    ELSE [ok |-> FALSE, val |-> <<>>, next |-> i]

\* the elements of an array from s[i] on, acc being those already read
\* (v is the element at s[i], j the place of what follows it)
JsonElements(s, i, acc) ==
    LET After(v, j) ==
            IF ~v.ok \/ j > Len(s)
            THEN [ok |-> FALSE, val |-> <<>>, next |-> i]
            ELSE IF s[j] = RB
                 THEN [ok |-> TRUE, val |-> Append(acc, v.val), next |-> j + 1]
            ELSE IF s[j] = COMMA
                 THEN JsonElements(s, SkipWs(s, j + 1), Append(acc, v.val))
            ELSE [ok |-> FALSE, val |-> <<>>, next |-> i]
    IN  CHOOSE r \in UNION {{After(v, j) : j \in {SkipWs(s, v.next)}}
                              : v \in {JsonValue(s, i)}} : TRUE

\* json.loads(s): ok = FALSE stands for the exception it raises, isList
\* tells a list from a scalar (a string or a number)
JsonLoads(s) ==
    LET i == SkipWs(s, 1)
        isArr == i <= Len(s) /\ s[i] = LB
        Document(v) ==
            IF v.ok /\ SkipWs(s, v.next) > Len(s)
            THEN [ok |-> TRUE, isList |-> isArr, val |-> v.val]
            ELSE [ok |-> FALSE, isList |-> FALSE, val |-> <<>>]
    IN  CHOOSE r \in {Document(v) : v \in {IF isArr THEN JsonArray(s, i)
                                            ELSE JsonValue(s, i)}} : TRUE

(***************************************************************************)
(* Preference resolver of the dashboard and the home page                  *)
(***************************************************************************)
\* The list a stored preference text is parsed to: a structured parse of a
\* text that starts with '[', the comma split of its inside when that
\* raises, and the comma split of any other text.
ParsePreferenceList(text) ==
    IF StartsWith(text, LB)
    THEN LET j == JsonLoads(Replace(text, SQ, DQ))
         IN  IF j.ok THEN j.val
             ELSE StripTokens(Split(Remove(Strip(text, {LB, RB}), SQ), COMMA))
    ELSE StripTokens(Split(text, COMMA))


(***************************************************************************)
(* Bounds of the model                                                     *)
(***************************************************************************)
MaxContent == 2        \* content rows ever inserted
MaxViews == 1          \* view_count a view request may still raise
MaxSeedLog == 2        \* recommendation rows the database holds at the start
MaxActivityId == 3     \* user_activities rows ever inserted
MaxInFlight == 2       \* activity requests between their read and their write
MaxTokens == 2         \* tokens of a stored preference list

(***************************************************************************)
(* The database                                                            *)
(***************************************************************************)
\* the default users, in the order of their ids
UserRole == <<"admin", "instructor", "student", "student">>
Users == DOMAIN UserRole

\* the default categories, in the order of their ids
CategoryName ==
    << <<"Computer", SP, "Science">>, <<"Data", SP, "Science">>,
       <<"Web", SP, "Development">>, <<"Mobile", SP, "Development">>,
       <<"Database">>, <<"Mathematics">>, <<"Languages">>, <<"Business">> >>

ContentTypes == {"pdf", "video", "link", "document", "presentation"}
DifficultyLevels == {"beginner", "intermediate", "advanced"}
PreferredDifficulties == DifficultyLevels \cup {"mixed"}
ActivityTypes == {"viewed", "downloaded", "completed", "bookmarked", "in_progress"}
RecommendationTypes == {"rule_based", "collaborative", "content_based"}

\* ratings and scores are exact fractions
Rat(n, d) == [num |-> n, den |-> d]
RatLess(a, b) == a.num * b.den < b.num * a.den
RatEq(a, b) == a.num * b.den = b.num * a.den

TicksPerDay == 2
\* date(t): the calendar day of a time stamp
Day(t) == t \div TicksPerDay

VARIABLES
    content,        \* content: id -> row
    nextContentId,  \* AUTOINCREMENT of content
    prefs,          \* user_preferences: the set of its rows
    interests,      \* users.interests: user_id -> text, or NullText
    activities,     \* user_activities: set of rows
    nextActivityId, \* AUTOINCREMENT of user_activities
    log,            \* recommendations: sequence of rows, in insertion order
    now,            \* the wall clock, in ticks
    resp,           \* the response of the last request
    pending,        \* activity requests that have read and not yet written
    feedback        \* content_feedback: the set of its rows

vars == <<content, nextContentId, prefs, interests, activities,
          nextActivityId, log, now, resp, pending, feedback>>

db == <<feedback, content, nextContentId, prefs, interests, activities,
        nextActivityId, log>>

ContentIds == DOMAIN content

Range(f) == {f[i] : i \in DOMAIN f}

\* CREATE TABLE content: the columns the handlers read, with their defaults
ContentRow(title, type, difficulty, category_id, published, uploader, t) ==
    [title |-> title, type |-> type, difficulty_level |-> difficulty,
     category_id |-> category_id, is_published |-> published,
     uploaded_by |-> uploader, download_count |-> 0, view_count |-> 0,
     average_rating |-> Rat(0, 1), rating_count |-> 0, created_at |-> t]

\* CREATE TABLE recommendations, with its defaults
LogRow(u, c, type, score, reason, t) ==
    [user_id |-> u, content_id |-> c, recommendation_type |-> type,
     score |-> score, reason |-> reason, was_clicked |-> FALSE,
     was_helpful |-> NULL, created_at |-> t]

\* CREATE TABLE user_preferences
PrefRow(difficulty, types, cats) ==
    [preferred_difficulty |-> difficulty, preferred_content_types |-> types,
     preferred_categories |-> cats]

\* users LEFT JOIN user_preferences: the row the resolvers read
\* a row of user_preferences: its id, its user and the columns of PrefRow
StoredPrefs(id, u, row) ==
    [id |-> id, user_id |-> u,
     preferred_difficulty |-> row.preferred_difficulty,
     preferred_content_types |-> row.preferred_content_types,
     preferred_categories |-> row.preferred_categories]

\* SELECT ... FROM user_preferences WHERE user_id = ?
PrefsOf(u) == {p \in prefs : p.user_id = u}

UserData(u) ==
    IF PrefsOf(u) = {}
    THEN [interests |-> interests[u], preferred_difficulty |-> NULL,
          preferred_content_types |-> NullText,
          preferred_categories |-> NullText]
    ELSE LET p == CHOOSE p \in PrefsOf(u) : \A q \in PrefsOf(u) : p.id <= q.id
         IN  [interests |-> interests[u],
              preferred_difficulty |-> p.preferred_difficulty,
              preferred_content_types |-> p.preferred_content_types,
              preferred_categories |-> p.preferred_categories]

\* the truth value Python gives a text column
Truthy(text) == text # NullText /\ text # <<>>

\* created_at >= date('now', '-N days'): both sides are compared as text,
\* and the right side is a bare date
InWindow(t, days) == Day(t) >= Day(now) - days


(***************************************************************************)
(* Queries.  A statement is its WHERE clause and its LIMIT clause, each a  *)
(* sequence of terms; a term holds n parameter markers ('?'), and the      *)
(* parameters are bound to the markers in the order of the text.           *)
(***************************************************************************)
Term(kind, n) == [kind |-> kind, n |-> n]
Marker == Term("?", 1)
Literal(k) == Term("literal", k)

RECURSIVE SumN(_)
SumN(terms) == IF terms = <<>> THEN 0 ELSE Head(terms).n + SumN(Tail(terms))

\* the parameter markers of a clause
Markers(terms) == SumN(SelectSeq(terms, LAMBDA t : t.kind # "literal"))

\* the parameters bound to term i of the WHERE clause
Bound(where, params, i) ==
    LET first == Markers(SubSeq(where, 1, i - 1))
    IN  SubSeq(params, first + 1, first + where[i].n)

\* the text of an integer: a parameter is compared as text
IdText(k) == <<ToString(k)>>

IsInfix(t, s) ==
    \E i \in 0..(Len(s) - Len(t)) : SubSeq(s, i + 1, i + Len(t)) = t

\* one term of a WHERE clause, for the content row c
Holds(term, args, c) ==
    CASE term.kind = "is_published" -> content[c].is_published
      [] term.kind = "type IN" -> <<content[c].type>> \in Range(args)
      [] term.kind = "difficulty_level =" ->
            <<content[c].difficulty_level>> = args[1]
      [] term.kind = "cat.name IN" ->
            /\ content[c].category_id # NullId
            /\ CategoryName[content[c].category_id] \in Range(args)
      [] term.kind = "category_id IN" ->
            /\ content[c].category_id # NullId
            /\ IdText(content[c].category_id) \in Range(args)
      [] term.kind = "id NOT IN" -> IdText(c) \notin Range(args)
      [] term.kind = "title LIKE" ->
            \E i \in DOMAIN args : IsInfix(args[i], content[c].title)
      [] OTHER -> FALSE

\* the rows a WHERE clause selects
Selected(where, params) ==
    {c \in ContentIds :
        \A i \in DOMAIN where : Holds(where[i], Bound(where, params, i), c)}

\* the integer a parameter spells
Numbers == 0..20
IntOf(token) == CHOOSE k \in Numbers : IdText(k) = token

\* sqlite3 prepares the statement and binds the parameters: a LIMIT clause
\* may hold a literal or one marker but no column, the number of parameters
\* is the number of markers, a list is no parameter and the value of LIMIT
\* is an integer
Executable(stmt, params) ==
    /\ Len(stmt.limit) = 1
    /\ stmt.limit[1].kind \in {"?", "literal"}
    /\ Markers(stmt.where) + Markers(stmt.limit) = Len(params)
    /\ NestedList \notin Range(params)
    /\ stmt.limit[1].kind = "?" => \E k \in Numbers : IdText(k) = params[Len(params)]

\* the value of LIMIT
LimitOf(stmt, params) ==
    IF stmt.limit[1].kind = "literal" THEN stmt.limit[1].n
    ELSE IntOf(params[Len(params)])

RECURSIVE Perms(_)
Perms(S) ==
    IF S = {} THEN {<<>>}
    ELSE UNION {{<<x>> \o p : p \in Perms(S \ {x})} : x \in S}

Min(a, b) == IF a < b THEN a ELSE b


(***************************************************************************)
(* Dashboard and home page                                                 *)
(***************************************************************************)
\* a clause and its parameters, grown as the handlers grow theirs
Clause(terms, params) == [terms |-> terms, params |-> params]

AddTerm(cl, kind, args) ==
    Clause(Append(cl.terms, Term(kind, Len(args))), cl.params \o args)

\* c.type IN (...) for a stored content-type preference
TypeFilter(cl, user) ==
    IF Truthy(user.preferred_content_types)
    THEN LET types_list == ParsePreferenceList(user.preferred_content_types)
         IN  IF types_list # <<>> THEN AddTerm(cl, "type IN", types_list)
             ELSE cl
    ELSE cl

DifficultyFilter_Dropped(cl, user) == cl

\* c.difficulty_level = ? unless the preference is unset or 'mixed'
DifficultyFilter(cl, user) ==
    IF user.preferred_difficulty # NULL /\ user.preferred_difficulty # "mixed"
    THEN AddTerm(cl, "difficulty_level =", <<<<user.preferred_difficulty>>>>)
    ELSE cl

\* cat.name IN (...) for a stored category preference
CategoryNameFilter(cl, user) ==
    IF Truthy(user.preferred_categories)
    THEN LET cats_list == ParsePreferenceList(user.preferred_categories)
         IN  IF cats_list # <<>> THEN AddTerm(cl, "cat.name IN", cats_list)
             ELSE cl
    ELSE cl

Published_Dropped == Clause(<<>>, <<>>)

\* c.is_published = 1, the first condition of every query for content
Published == Clause(<<Term("is_published", 0)>>, <<>>)

DashboardLimit == 3
HomeLimit == 6

\* ORDER BY c.average_rating DESC, c.view_count DESC
ByRatingThenViews(a, b) ==
    \/ RatLess(content[b].average_rating, content[a].average_rating)
    \/ /\ RatEq(content[a].average_rating, content[b].average_rating)
       /\ content[a].view_count > content[b].view_count

\* ORDER BY RANDOM()
AnyOrder(a, b) == FALSE

\* the personalised query of the dashboard
DashboardQuery(u) ==
    LET user == UserData(u)
    IN  CategoryNameFilter(DifficultyFilter(TypeFilter(Published, user), user),
                           user)

\* the personalised query of the home page
HomeQuery(u) ==
    LET user == UserData(u)
    IN  DifficultyFilter(TypeFilter(Published, user), user)

UseFallback_WheneverEmpty(rows, user) == rows = <<>>

\* the fallback of both: nothing but a stored content-type preference
\* keeps an empty result from being replaced
UseFallback(rows, user) ==
    rows = <<>> /\ ~Truthy(user.preferred_content_types)


(***************************************************************************)
(* Rule-based recommendations (the for-you feed)                           *)
(***************************************************************************)
Reason == "Rule-based: matches preferences and interests"
DefaultLimit == 10
ViewedDays == 30
ClickDays == 1
FeedbackDays == 7
TrendingDays == 7
TrendingLimit == 20

RECURSIVE SeqOfSet(_)
\* the elements of a set of integers in increasing order
SeqOfSet(S) ==
    IF S = {} THEN <<>>
    ELSE LET m == CHOOSE x \in S : \A y \in S : x <= y
         IN  <<m>> \o SeqOfSet(S \ {m})

\* the content ids of the user's 'viewed' rows of the last 30 days, in the
\* order of the rows
viewed_content(u) ==
    LET rows == {a \in activities : /\ a.user_id = u
                                    /\ a.activity_type = "viewed"
                                    /\ InWindow(a.created_at, ViewedDays)}
        ids == SeqOfSet({a.id : a \in rows})
    IN  [i \in DOMAIN ids |->
            (CHOOSE a \in rows : a.id = ids[i]).content_id]

\* what 'for x in json.loads(text)' and len(json.loads(text)) work on: the
\* elements of a list, the characters of a string; nothing when the text is
\* no document or spells a number (the exception is swallowed)
LoadedList(text) ==
    LET j == JsonLoads(text)
    IN  IF ~j.ok THEN <<>>
        ELSE IF j.isList THEN j.val
        ELSE IF text[SkipWs(text, 1)] = DQ
             THEN [i \in DOMAIN j.val |-> <<j.val[i]>>]
        ELSE <<>>

LikePattern(token) == <<"%">> \o token \o <<"%">>

RECURSIVE LikeParams(_)
LikeParams(tokens) ==
    IF tokens = <<>> THEN <<>>
    ELSE <<LikePattern(Head(tokens)), LikePattern(Head(tokens))>>
         \o LikeParams(Tail(tokens))

\* where_conditions and params before the statement is assembled
WhereConditions(u) ==
    LET user == UserData(u)
        viewed == viewed_content(u)
        c1 == IF viewed # <<>>
              THEN AddTerm(Published, "id NOT IN",
                           [i \in DOMAIN viewed |-> IdText(viewed[i])])
              ELSE Published
        c2 == DifficultyFilter(c1, user)
        ints == IF Truthy(user.interests) THEN LoadedList(user.interests)
                ELSE <<>>
        c3 == IF ints # <<>>
              THEN Clause(Append(c2.terms, Term("title LIKE", 2 * Len(ints))),
                          c2.params \o LikeParams(ints))
              ELSE c2
        cats == IF Truthy(user.preferred_categories)
                THEN LoadedList(user.preferred_categories) ELSE <<>>
    IN  IF cats # <<>> THEN AddTerm(c3, "category_id IN", cats) ELSE c3

\* base_query: the two '?' of its text, after WHERE and after LIMIT
BaseQuery == [where |-> <<Marker>>, limit |-> <<Marker>>]

RECURSIVE ReplaceMarkers(_, _)
\* str.replace('?', new) on one clause: every '?' of the clause becomes new
\* (the markers inside new are not looked at again)
ReplaceMarkers(terms, new) ==
    IF terms = <<>> THEN <<>>
    ELSE (IF Head(terms) = Marker THEN new ELSE <<Head(terms)>>)
         \o ReplaceMarkers(Tail(terms), new)

\* final_query = base_query.replace('?', ' AND '.join(where_conditions))
FinalQuery(where_conditions) ==
    [where |-> ReplaceMarkers(BaseQuery.where, where_conditions),
     limit |-> ReplaceMarkers(BaseQuery.limit, where_conditions)]

\* a score in which views count against the item
Score_ViewsSubtracted(c) ==
    Rat(30 * content[c].average_rating.num
          + (2 * content[c].download_count - content[c].view_count)
            * content[c].average_rating.den,
        content[c].average_rating.den)

\* (average_rating * 0.3 + download_count * 0.02 + view_count * 0.01), in
\* hundredths
Score(c) ==
    Rat(30 * content[c].average_rating.num
          + (2 * content[c].download_count + content[c].view_count)
            * content[c].average_rating.den,
        content[c].average_rating.den)

\* ORDER BY score DESC, c.created_at DESC
ByScoreThenNewest(a, b) ==
    \/ RatLess(Score(b), Score(a))
    \/ RatEq(Score(a), Score(b)) /\ content[a].created_at > content[b].created_at

\* COUNT(ua.id) of the join with the activities of the last 7 days
recent_activities(c) ==
    Cardinality({a \in activities : /\ a.content_id = c
                                    /\ InWindow(a.created_at, TrendingDays)})

\* ORDER BY recent_activities DESC, c.average_rating DESC, c.created_at DESC
ByActivityRatingNewest(a, b) ==
    \/ recent_activities(a) > recent_activities(b)
    \/ /\ recent_activities(a) = recent_activities(b)
       /\ \/ RatLess(content[b].average_rating, content[a].average_rating)
          \/ /\ RatEq(content[a].average_rating, content[b].average_rating)
             /\ content[a].created_at > content[b].created_at

\* the ORDER BY clauses of the statements: whether row a sorts strictly
\* before row b
SortsBefore(order, a, b) ==
    CASE order = "rating" -> ByRatingThenViews(a, b)
      [] order = "random" -> AnyOrder(a, b)
      [] order = "score" -> ByScoreThenNewest(a, b)
      [] order = "trending" -> ByActivityRatingNewest(a, b)

\* ORDER BY ... LIMIT k: the first k rows of any order of S that no pair
\* contradicts
Ordered(S, order, k) ==
    {SubSeq(p, 1, Min(k, Len(p))) :
        p \in {q \in Perms(S) :
                 \A i, j \in DOMAIN q : i < j => ~SortsBefore(order, q[j], q[i])}}

\* the rows cursor.execute(final_query, params) can fetch; no row set when
\* the statement raises
Fetch(stmt, params, order) ==
    IF Executable(stmt, params)
    THEN Ordered(Selected(stmt.where, params), order, LimitOf(stmt, params))
    ELSE {}

\* the steps of a request that the environment can make fail
Faults == {"none", "connection", "preferences", "query", "insert"}

\* the rows of the log for a list of recommendations, copies telling how
\* often each is inserted
LoggedRows(u, rows, copies) ==
    [i \in 1..(copies * Len(rows)) |->
        LogRow(u, rows[((i - 1) \div copies) + 1], "rule_based",
               Score(rows[((i - 1) \div copies) + 1]), Reason, now)]

\* a try block that executes stmt with params, sorts by order and logs
\* every row copies times: the ways it can end, failed telling that an
\* exception left it; the rows are logged and committed only when it ends
\* normally
TryQuery(u, stmt, params, order, copies, fault) ==
    LET fetched == Fetch(stmt, params, order)
        failure == [failed |-> TRUE, list |-> <<>>, logged |-> <<>>]
    IN  IF fault \in {"preferences", "query"} \/ fetched = {}
        THEN {failure}
        ELSE {IF fault = "insert" /\ rows # <<>> THEN failure
              ELSE [failed |-> FALSE, list |-> rows,
                    logged |-> LoggedRows(u, rows, copies)]
              : rows \in fetched}

\* the statement with the markers of WHERE alone replaced
WhereOnly(where_conditions) ==
    [where |-> ReplaceMarkers(BaseQuery.where, where_conditions),
     limit |-> BaseQuery.limit]

\* the viewed-content exclusion left out of a clause
WithoutViewed(cl) ==
    LET keep == {i \in DOMAIN cl.terms : cl.terms[i].kind # "id NOT IN"}
        idx == SeqOfSet(keep)
    IN  Clause([i \in DOMAIN idx |-> cl.terms[idx[i]]],
               Concat([i \in DOMAIN idx |-> Bound(cl.terms, cl.params, idx[i])]))

TryRecommendations_Unordered(u, limit, fault) ==
    TryQuery(u, WhereOnly(WhereConditions(u).terms),
             Append(WhereConditions(u).params, IdText(limit)), "random", 1, fault)

TryRecommendations_LoggedTwice(u, limit, fault) ==
    TryQuery(u, WhereOnly(WhereConditions(u).terms),
             Append(WhereConditions(u).params, IdText(limit)),
             "score", 2, fault)

TryRecommendations_ViewedKept(u, limit, fault) ==
    TryQuery(u, WhereOnly(WithoutViewed(WhereConditions(u)).terms),
             Append(WithoutViewed(WhereConditions(u)).params, IdText(limit)),
             "score", 1, fault)

\* the try block of get_rule_based_recommendations(user_id, limit)
TryRecommendations(u, limit, fault) ==
    TryQuery(u, FinalQuery(WhereConditions(u).terms),
             Append(WhereConditions(u).params, IdText(limit)),
             "score", 1, fault)

OnException_Reraise(outcome) ==
    [raised |-> outcome.failed, list |-> outcome.list, logged |-> outcome.logged]

\* except Exception: return []
OnException(outcome) ==
    IF outcome.failed
    THEN [raised |-> FALSE, list |-> <<>>, logged |-> <<>>]
    ELSE [raised |-> FALSE, list |-> outcome.list, logged |-> outcome.logged]

\* get_rule_based_recommendations(user_id, limit): what it returns, the rows
\* it adds to the log and whether it raises
get_rule_based_recommendations(u, limit, fault) ==
    IF fault = "connection"
    THEN {[raised |-> FALSE, list |-> <<>>, logged |-> <<>>]}
    ELSE {OnException(o) : o \in TryRecommendations(u, limit, fault)}


(***************************************************************************)
(* Requests.  The session gives the user and the role; the form values are *)
(* drawn from the sets below.                                              *)
(***************************************************************************)
Anonymous == 0
Students == {u \in Users : UserRole[u] = "student"}
Uploaders == {u \in Users : UserRole[u] \in {"instructor", "admin"}}
Admins == {u \in Users : UserRole[u] = "admin"}

Titles == {<<"algebra">>}
FormTypes == {"video", "document"}
FormDifficulties == {"beginner", "advanced"}
FormCategories == {NullId, 6}
FormPreferredDifficulties == {"mixed", "beginner"}
FormTypeLists == {<<>>, << <<"video">> >>, << <<"video">>, <<"document">> >>}
FormCategoryLists == {<<>>, << <<"Mathematics">> >>, << <<"6">> >>}
FormInterestLists == {<<>>, << <<"algebra">> >>}

\* what a request is answered with: the handler, the session's user, how
\* the handler ended, the content rows it lists and whether they are the
\* fallback; fault records the failure the environment injected
Response(op, u, status, items, fallback) ==
    [op |-> op, user |-> u, status |-> status, items |-> items,
     fallback |-> fallback, fault |-> "none", arg |-> NULL]

WithFault(r, fault) == [r EXCEPT !.fault = fault]

\* a value the request carried: 'helpful', or the activity type
WithArg(r, arg) == [r EXCEPT !.arg = arg]

Idle == Response("none", Anonymous, "ok", <<>>, FALSE)

\* POST /content/upload
upload(u, title, type, difficulty, category_id, publish_now) ==
    /\ u \in Uploaders
    /\ nextContentId <= MaxContent
    /\ content' = content @@
          (nextContentId :> ContentRow(title, type, difficulty, category_id,
                                       publish_now, u, now))
    /\ nextContentId' = nextContentId + 1
    /\ resp' = Response("upload", u, "ok", <<>>, FALSE)
    /\ UNCHANGED <<prefs, interests, activities, nextActivityId, log, now>>
    /\ UNCHANGED <<pending, feedback>>

\* POST /content/<id>/edit
edit(u, c, title, type, difficulty, category_id, publish_now) ==
    /\ u \in Uploaders
    /\ c \in ContentIds
    /\ IF UserRole[u] # "admin" /\ content[c].uploaded_by # u
       THEN /\ resp' = Response("edit", u, "denied", <<>>, FALSE)
            /\ UNCHANGED content
       ELSE /\ content' = [content EXCEPT
                  ![c].title = title, ![c].type = type,
                  ![c].difficulty_level = difficulty,
                  ![c].category_id = category_id,
                  ![c].is_published = publish_now]
            /\ resp' = Response("edit", u, "ok", <<>>, FALSE)
    /\ UNCHANGED <<nextContentId, prefs, interests, activities,
                   nextActivityId, log, now>>
    /\ UNCHANGED <<pending, feedback>>

\* /admin/toggle-content/<id>
toggle_content(u, c) ==
    /\ u \in Admins
    /\ c \in ContentIds
    /\ content' = [content EXCEPT ![c].is_published = ~content[c].is_published]
    /\ resp' = Response("toggle_content", u, "ok", <<>>, FALSE)
    /\ UNCHANGED <<nextContentId, prefs, interests, activities,
                   nextActivityId, log, now>>
    /\ UNCHANGED <<pending, feedback>>

\* POST /user/settings, the preferences form: an empty list is stored as
\* NULL, any other as the text Python prints for it
\* the preferences form always inserts, whatever the table holds
existing_prefs_Ignored(u) == {}

\* "check if user preferences record exists"
existing_prefs(u) == PrefsOf(u)

\* the id AUTOINCREMENT gives the next row; no request deletes a row
NextPrefId == Cardinality(prefs) + 1

settings(u, difficulty, types, cats) ==
    /\ u \in Users
    /\ LET row == PrefRow(difficulty,
                          IF types # <<>> THEN PyStr(types) ELSE NullText,
                          IF cats # <<>> THEN PyStr(cats) ELSE NullText)
       IN  IF existing_prefs(u) # {}
           THEN /\ prefs' = {IF p.user_id = u
                             THEN StoredPrefs(p.id, u, row) ELSE p : p \in prefs}
                /\ resp' = Response("settings", u, "ok", <<>>, FALSE)
           ELSE IF PrefsOf(u) # {}
           THEN \* UNIQUE (user_id) rejects the INSERT
                /\ resp' = Response("settings", u, "error", <<>>, FALSE)
                /\ UNCHANGED prefs
           ELSE /\ prefs' = prefs \cup {StoredPrefs(NextPrefId, u, row)}
                /\ resp' = Response("settings", u, "ok", <<>>, FALSE)
    /\ UNCHANGED <<content, nextContentId, interests, activities,
                   nextActivityId, log, now>>
    /\ UNCHANGED <<pending, feedback>>

\* POST /user/edit-profile
edit_profile(u, list) ==
    /\ u \in Users
    /\ interests' = [interests EXCEPT
          ![u] = IF list # <<>> THEN PyStr(list) ELSE NullText]
    /\ resp' = Response("edit_profile", u, "ok", <<>>, FALSE)
    /\ UNCHANGED <<content, nextContentId, prefs, activities,
                   nextActivityId, log, now>>
    /\ UNCHANGED <<pending, feedback>>

\* the recommended_content of the dashboard, with the fallback flag
DashboardContent(u) ==
    LET q == DashboardQuery(u)
        stmt == [where |-> q.terms, limit |-> <<Literal(DashboardLimit)>>]
        all == [where |-> Published.terms, limit |-> <<Literal(DashboardLimit)>>]
    IN  UNION {IF UseFallback(rows, UserData(u))
               THEN {[items |-> f, fallback |-> TRUE]
                       : f \in Fetch(all, <<>>, "rating")}
               ELSE {[items |-> rows, fallback |-> FALSE]}
              : rows \in Fetch(stmt, q.params, "rating")}

\* GET /dashboard.  Only a student gets the page; a query that raises, and
\* a connection that cannot be had, give the page with no content.
dashboard(u, fault) ==
    /\ u \in Users
    /\ IF UserRole[u] # "student"
       THEN resp' = Response("dashboard", u, "redirect", <<>>, FALSE)
       ELSE IF fault # "none" \/ DashboardContent(u) = {}
       THEN resp' = WithFault(Response("dashboard", u, "error", <<>>, FALSE),
                              fault)
       ELSE \E r \in DashboardContent(u) :
               resp' = Response("dashboard", u, "ok", r.items, r.fallback)
    /\ UNCHANGED <<db, now>>
    /\ UNCHANGED <<pending, feedback>>

\* the featured_content of the home page, with the fallback flag
HomeContent(u) ==
    LET q == HomeQuery(u)
        stmt == [where |-> q.terms, limit |-> <<Literal(HomeLimit)>>]
        all == [where |-> Published.terms, limit |-> <<Literal(HomeLimit)>>]
    IN  UNION {IF UseFallback(rows, UserData(u))
               THEN {[items |-> f, fallback |-> TRUE]
                       : f \in Fetch(all, <<>>, "random")}
               ELSE {[items |-> rows, fallback |-> FALSE]}
              : rows \in Fetch(stmt, q.params, "random")}

\* GET /.  A visitor who is not logged in gets no featured content.
index(u, fault) ==
    /\ u \in Users \cup {Anonymous}
    /\ IF fault # "none" \/ (u # Anonymous /\ HomeContent(u) = {})
       THEN resp' = WithFault(Response("index", u, "error", <<>>, FALSE), fault)
       ELSE IF u = Anonymous
       THEN resp' = Response("index", u, "ok", <<>>, FALSE)
       ELSE \E r \in HomeContent(u) :
               resp' = Response("index", u, "ok", r.items, r.fallback)
    /\ UNCHANGED <<db, now>>
    /\ UNCHANGED <<pending, feedback>>


\* the row of a (user, content, type) triple that fetchone() gives: the one
\* inserted first
ExistingActivity(u, c, type) ==
    LET rows == {a \in activities : /\ a.user_id = u /\ a.content_id = c
                                    /\ a.activity_type = type}
    IN  IF rows = {} THEN {}
        ELSE {CHOOSE a \in rows : \A b \in rows : a.id <= b.id}

\* what follows "check if exists first": the time stamp of the row that was
\* read is renewed, or, when none was read, a row is inserted
WriteActivity(u, c, type, existing) ==
    IF existing # {}
    THEN /\ activities' = {IF a.id \in {e.id : e \in existing}
                           THEN [a EXCEPT !.created_at = now] ELSE a
                           : a \in activities}
         /\ UNCHANGED nextActivityId
    ELSE /\ nextActivityId <= MaxActivityId
         /\ activities' = activities \cup
              {[id |-> nextActivityId, user_id |-> u, content_id |-> c,
                activity_type |-> type, created_at |-> now]}
         /\ nextActivityId' = nextActivityId + 1

\* an upsert that skips the check and always inserts
UpsertActivity_AlwaysInsert(u, c, type) ==
    WriteActivity(u, c, type, {})

\* the read and the write of one request that no other request comes
\* between
UpsertActivity(u, c, type) ==
    WriteActivity(u, c, type, ExistingActivity(u, c, type))

\* GET /content/<id>: an admin finds any content, the others published
\* content only
view(u, c) ==
    /\ u \in Users
    /\ IF c \in ContentIds /\ (UserRole[u] = "admin" \/ content[c].is_published)
       THEN /\ content[c].view_count < MaxViews
            /\ content' = [content EXCEPT ![c].view_count = @ + 1]
            /\ UpsertActivity(u, c, "viewed")
            /\ resp' = Response("view", u, "ok", <<c>>, FALSE)
       ELSE /\ resp' = Response("view", u, "not_found", <<>>, FALSE)
            /\ UNCHANGED <<content, activities, nextActivityId>>
    /\ UNCHANGED <<nextContentId, prefs, interests, log, now>>
    /\ UNCHANGED <<pending, feedback>>

\* the content a request for item c finds: an admin finds any content, the
\* others published content only
Visible(u, c) ==
    c \in ContentIds /\ (UserRole[u] = "admin" \/ content[c].is_published)

\* a view that writes back the count it read, plus one
Viewed_Stale(c, seen) == seen + 1

\* UPDATE content SET view_count = view_count + 1 WHERE id = c
Viewed(c, seen) == content[c].view_count + 1

\* GET /content/<id> up to the SELECT on content: a request that finds
\* nothing is answered, the others go on; no transaction is open
view_read(r, u, c) ==
    /\ u \in Users
    /\ r \notin {p.request : p \in pending}
    /\ IF Visible(u, c)
       THEN /\ pending' = pending \cup
                 {[request |-> r, user_id |-> u, content_id |-> c,
                   seen |-> content[c].view_count]}
            /\ UNCHANGED resp
       ELSE /\ resp' = Response("view", u, "not_found", <<>>, FALSE)
            /\ UNCHANGED pending
    /\ UNCHANGED <<db, now>>

\* the rest of that request, one write transaction: the UPDATE of the
\* count, the 'viewed' activity, the commit
view_write(p) ==
    /\ p \in pending
    /\ pending' = pending \ {p}
    /\ content[p.content_id].view_count <= MaxViews
    /\ content' = [content EXCEPT
          ![p.content_id].view_count = Viewed(p.content_id, p.seen)]
    /\ UpsertActivity(p.user_id, p.content_id, "viewed")
    /\ resp' = Response("view", p.user_id, "ok", <<p.content_id>>, FALSE)
    /\ UNCHANGED <<nextContentId, prefs, interests, log, now, feedback>>

ValidActivities == {"viewed", "completed", "bookmarked"}

\* the answer of record_activity before it reads user_activities: "ok" when
\* it goes on to the upsert
ActivityStatus(u, c, type, fault) ==
    CASE u = Anonymous -> "unauthenticated"
      [] fault = "connection" -> "error"
      [] type \notin ValidActivities -> "400"
      [] ~Visible(u, c) -> "not_found"
      [] OTHER -> "ok"

\* POST /content/<id>/activity, served without another request in between
record_activity(u, c, type, fault) ==
    /\ resp' = WithArg(Response("record_activity", u,
                                 ActivityStatus(u, c, type, fault), <<c>>,
                                 FALSE), type)
    /\ IF ActivityStatus(u, c, type, fault) = "ok"
       THEN UpsertActivity(u, c, type)
       ELSE UNCHANGED <<activities, nextActivityId>>
    /\ UNCHANGED <<content, nextContentId, prefs, interests, log, now>>
    /\ UNCHANGED <<pending, feedback>>

\* POST /content/<id>/activity up to the SELECT on user_activities: the
\* request holds the row it read, if any; no transaction is open
record_activity_read(r, u, c, type) ==
    /\ r \notin {p.request : p \in pending}
    /\ ActivityStatus(u, c, type, "none") = "ok"
    /\ pending' = pending \cup
          {[request |-> r, user_id |-> u, content_id |-> c,
            activity_type |-> type,
            existing |-> ExistingActivity(u, c, type)]}
    /\ UNCHANGED <<db, now, resp>>
    /\ UNCHANGED feedback

\* the rest of that request: the UPDATE or the INSERT the earlier read
\* selects, and the commit
record_activity_write(p) ==
    /\ p \in pending
    /\ pending' = pending \ {p}
    /\ WriteActivity(p.user_id, p.content_id, p.activity_type, p.existing)
    /\ resp' = WithArg(Response("record_activity", p.user_id, "ok",
                                 <<p.content_id>>, FALSE), p.activity_type)
    /\ UNCHANGED <<content, nextContentId, prefs, interests, log, now>>
    /\ UNCHANGED feedback

\* a bookmark handler that adds the bookmark and never removes it
toggle_bookmark_AddOnly(u, c, fault) ==
    /\ u \in Users /\ fault = "none" /\ Visible(u, c)
    /\ IF ExistingActivity(u, c, "bookmarked") # {}
       THEN UNCHANGED <<activities, nextActivityId>>
       ELSE WriteActivity(u, c, "bookmarked", {})
    /\ resp' = WithArg(Response("toggle_bookmark", u, "ok", <<c>>, FALSE),
                       "true")
    /\ UNCHANGED <<content, nextContentId, prefs, interests, log, now>>
    /\ UNCHANGED <<pending, feedback>>

\* POST /content/<id>/bookmark: removes every 'bookmarked' row of the pair,
\* or inserts one when there is none
toggle_bookmark(u, c, fault) ==
    /\ IF u = Anonymous
       THEN /\ resp' = Response("toggle_bookmark", u, "unauthenticated",
                                 <<c>>, FALSE)
            /\ UNCHANGED <<activities, nextActivityId>>
       ELSE IF fault = "connection"
       THEN /\ resp' = Response("toggle_bookmark", u, "error", <<c>>, FALSE)
            /\ UNCHANGED <<activities, nextActivityId>>
       ELSE IF ~Visible(u, c)
       THEN /\ resp' = Response("toggle_bookmark", u, "not_found", <<c>>,
                                 FALSE)
            /\ UNCHANGED <<activities, nextActivityId>>
       ELSE IF ExistingActivity(u, c, "bookmarked") # {}
       THEN /\ activities' =
                 {a \in activities : ~(/\ a.user_id = u /\ a.content_id = c
                                       /\ a.activity_type = "bookmarked")}
            /\ UNCHANGED nextActivityId
            /\ resp' = WithArg(Response("toggle_bookmark", u, "ok", <<c>>,
                                         FALSE), "false")
       ELSE /\ WriteActivity(u, c, "bookmarked", {})
            /\ resp' = WithArg(Response("toggle_bookmark", u, "ok", <<c>>,
                                         FALSE), "true")
    /\ UNCHANGED <<content, nextContentId, prefs, interests, log, now>>
    /\ UNCHANGED <<pending, feedback>>

\* GET /recommend/for-you
for_you(u, fault) ==
    /\ u \in Users
    /\ \E r \in get_rule_based_recommendations(u, DefaultLimit, fault) :
          /\ log' = log \o r.logged
          /\ resp' = WithFault(Response("for_you", u,
                                        IF r.raised THEN "raised" ELSE "ok",
                                        r.list, FALSE), fault)
    /\ UNCHANGED <<content, nextContentId, prefs, interests, activities,
                   nextActivityId, now>>
    /\ UNCHANGED <<pending, feedback>>

\* GET /recommend/api/refresh
api_refresh(u, fault) ==
    /\ u \in Users
    /\ \E r \in get_rule_based_recommendations(u, DefaultLimit, fault) :
          /\ log' = log \o r.logged
          /\ resp' = WithFault(Response("api_refresh", u,
                                        IF r.raised THEN "raised" ELSE "ok",
                                        r.list, FALSE), fault)
    /\ UNCHANGED <<content, nextContentId, prefs, interests, activities,
                   nextActivityId, now>>
    /\ UNCHANGED <<pending, feedback>>

\* GET /recommend/trending
trending(u, fault) ==
    /\ u \in Users
    /\ IF fault # "none"
       THEN resp' = WithFault(Response("trending", u, "error", <<>>, FALSE),
                              fault)
       ELSE \E rows \in Fetch([where |-> Published.terms,
                               limit |-> <<Literal(TrendingLimit)>>],
                              <<>>, "trending") :
               resp' = Response("trending", u, "ok", rows, FALSE)
    /\ UNCHANGED <<db, now>>
    /\ UNCHANGED <<pending, feedback>>

UpdateLog_AnyContent(u, c, days, flag, value) ==
    [i \in DOMAIN log |->
        IF log[i].user_id = u /\ InWindow(log[i].created_at, days)
        THEN [log[i] EXCEPT ![flag] = value]
        ELSE log[i]]

UpdateLog_Toggled(u, c, days, flag, value) ==
    [i \in DOMAIN log |->
        IF /\ log[i].user_id = u /\ log[i].content_id = c
           /\ InWindow(log[i].created_at, days)
        THEN [log[i] EXCEPT ![flag] =
                 IF flag = "was_clicked" THEN ~log[i].was_clicked
                 ELSE IF log[i].was_helpful = value THEN NULL ELSE value]
        ELSE log[i]]

UpdateLog_MostRecentOnly(u, c, days, flag, value) ==
    LET rows == {i \in DOMAIN log : /\ log[i].user_id = u /\ log[i].content_id = c
                                    /\ InWindow(log[i].created_at, days)}
    IN  [i \in DOMAIN log |->
            IF i \in rows /\ \A j \in rows : j <= i
            THEN [log[i] EXCEPT ![flag] = value]
            ELSE log[i]]

\* UPDATE recommendations SET <flag> = <value> WHERE user_id = ? AND
\* content_id = ? AND created_at >= date('now', '-<days> day')
UpdateLog(u, c, days, flag, value) ==
    [i \in DOMAIN log |->
        IF /\ log[i].user_id = u /\ log[i].content_id = c
           /\ InWindow(log[i].created_at, days)
        THEN [log[i] EXCEPT ![flag] = value]
        ELSE log[i]]

\* a click handler that goes on without its connection check
api_click_Unchecked(u, c, fault) ==
    /\ u \in Users
    /\ log' = UpdateLog(u, c, ClickDays, "was_clicked", TRUE)
    /\ UpsertActivity(u, c, "viewed")
    /\ resp' = WithFault(Response("api_click", u, "error", <<>>, FALSE), fault)
    /\ UNCHANGED <<content, nextContentId, prefs, interests, now>>
    /\ UNCHANGED <<pending, feedback>>

\* GET /recommend/api/click/<id>
api_click(u, c, fault) ==
    /\ u \in Users
    /\ IF fault # "none"
       THEN /\ resp' = WithFault(Response("api_click", u, "error", <<>>, FALSE),
                                 fault)
            /\ UNCHANGED <<log, activities, nextActivityId>>
       ELSE /\ log' = UpdateLog(u, c, ClickDays, "was_clicked", TRUE)
            /\ UpsertActivity(u, c, "viewed")
            /\ resp' = Response("api_click", u, "ok", <<c>>, FALSE)
    /\ UNCHANGED <<content, nextContentId, prefs, interests, now>>
    /\ UNCHANGED <<pending, feedback>>

\* /recommend/api/feedback/<id>, helpful being the value of the request:
\* "true", "false", or NULL when the request has none
api_feedback(u, c, helpful, fault) ==
    /\ u \in Users
    /\ IF helpful = NULL
       THEN /\ resp' = Response("api_feedback", u, "400", <<>>, FALSE)
            /\ UNCHANGED log
       ELSE IF fault # "none"
       THEN /\ resp' = WithFault(Response("api_feedback", u, "error", <<>>,
                                          FALSE), fault)
            /\ UNCHANGED log
       ELSE /\ log' = UpdateLog(u, c, FeedbackDays, "was_helpful", helpful)
            /\ resp' = WithArg(Response("api_feedback", u, "ok", <<c>>, FALSE),
                               helpful)
    /\ UNCHANGED <<content, nextContentId, prefs, interests, activities,
                   nextActivityId, now>>
    /\ UNCHANGED <<pending, feedback>>

\* int(rating) of a number given in tenths: the fraction is cut off
PyInt(tenths) ==
    IF tenths >= 0 THEN tenths \div 10 ELSE -((-tenths) \div 10)

\* data.get('rating'): nothing, a text that is no number, or a number,
\* given in tenths
NoRating == [kind |-> "missing", tenths |-> 0]
TextRating == [kind |-> "text", tenths |-> 0]
Number(tenths) == [kind |-> "number", tenths |-> tenths]

\* the answer of rate before it connects: 'not rating' holds for a missing
\* rating and for 0, int() of a text that is no number raises ValueError
RateStatus(u, rating, fault) ==
    CASE u = Anonymous -> "unauthenticated"
      [] rating.kind = "missing" -> "400"
      [] rating.kind = "text" -> "400"
      [] rating.tenths = 0 \/ PyInt(rating.tenths) \notin 1..5 -> "400"
      [] fault = "connection" -> "error"
      [] OTHER -> "ok"

\* the rows of content_feedback for item c
FeedbackOf(S, c) == {f \in S : f.content_id = c}

RECURSIVE SumRatings(_)
SumRatings(S) ==
    IF S = {} THEN 0
    ELSE LET f == CHOOSE f \in S : TRUE
         IN  f.rating + SumRatings(S \ {f})

\* COALESCE(AVG(CAST(rating AS FLOAT)), 0)
AverageRating(S) ==
    IF S = {} THEN Rat(0, 1) ELSE Rat(SumRatings(S), Cardinality(S))

\* POST /content/<id>/rate: the row of (content, user) is updated or
\* inserted, then the content's average and count are recomputed
rate(u, c, rating, fault) ==
    /\ resp' = WithArg(Response("rate", u, RateStatus(u, rating, fault), <<c>>,
                                 FALSE), rating)
    /\ IF RateStatus(u, rating, fault) = "ok"
       THEN /\ feedback' =
                 {f \in feedback : ~(f.content_id = c /\ f.user_id = u)}
                 \cup {[content_id |-> c, user_id |-> u,
                        rating |-> PyInt(rating.tenths)]}
            /\ content' =
                 [d \in ContentIds |->
                    IF d = c
                    THEN [content[d] EXCEPT
                            !.average_rating =
                                AverageRating(FeedbackOf(feedback', c)),
                            !.rating_count =
                                Cardinality(FeedbackOf(feedback', c))]
                    ELSE content[d]]
       ELSE UNCHANGED <<content, feedback>>
    /\ UNCHANGED <<nextContentId, prefs, interests, activities,
                   nextActivityId, log, now, pending>>

\* the answer of delete_feedback before it deletes: the row is looked up
\* joined with its content, then the user must be an admin or its owner
DeleteFeedbackStatus(u, c, owner, fault) ==
    CASE u = Anonymous -> "unauthenticated"
      [] fault = "connection" -> "error"
      [] c \notin ContentIds
         \/ ~(\E f \in feedback : f.content_id = c /\ f.user_id = owner)
           -> "not_found"
      [] u \notin Admins /\ u # owner -> "forbidden"
      [] OTHER -> "ok"

\* UPDATE content SET average_rating = ..., rating_count = ... WHERE id = c
Recount(c, rows) ==
    [content[c] EXCEPT !.average_rating = AverageRating(FeedbackOf(rows, c)),
                       !.rating_count = Cardinality(FeedbackOf(rows, c))]

\* POST /content/<id>/feedback/<feedback_id>/delete, the feedback row being
\* the one owner wrote for item c
delete_feedback(u, c, owner, fault) ==
    /\ resp' = WithFault(Response("delete_feedback", u,
                                  DeleteFeedbackStatus(u, c, owner, fault),
                                  <<c>>, FALSE), fault)
    /\ IF DeleteFeedbackStatus(u, c, owner, fault) = "ok"
       THEN /\ feedback' =
                 {f \in feedback : ~(f.content_id = c /\ f.user_id = owner)}
            /\ content' =
                 [d \in ContentIds |->
                    IF d = c THEN Recount(c, feedback') ELSE content[d]]
       ELSE UNCHANGED <<content, feedback>>
    /\ UNCHANGED <<nextContentId, prefs, interests, activities,
                   nextActivityId, log, now, pending>>

\* the recommendations table after content c is deleted, were the
\* ON DELETE CASCADE of its foreign key in force
LogAfterDelete_Cascade(c) ==
    LET Kept(row) == row.content_id # c
    IN  SelectSeq(log, Kept)

\* the recommendations table after content c is deleted: no connection of
\* the application turns foreign keys on, and delete_content has no
\* statement on the table
LogAfterDelete(c) == log

\* POST /content/<id>/delete
delete_content(u, c) ==
    /\ IF u \notin Admins
       THEN /\ resp' = Response("delete_content", u, "forbidden", <<c>>, FALSE)
            /\ UNCHANGED <<content, feedback, activities, log>>
       ELSE IF c \notin ContentIds
       THEN /\ resp' = Response("delete_content", u, "not_found", <<c>>, FALSE)
            /\ UNCHANGED <<content, feedback, activities, log>>
       ELSE /\ feedback' = feedback \ FeedbackOf(feedback, c)
            /\ activities' = {a \in activities : a.content_id # c}
            /\ content' = [d \in ContentIds \ {c} |-> content[d]]
            /\ log' = LogAfterDelete(c)
            /\ resp' = Response("delete_content", u, "ok", <<c>>, FALSE)
    /\ UNCHANGED <<nextContentId, prefs, interests, nextActivityId, now,
                   pending>>

\* the score column of the feed's statement, evaluated for item c
ComputeScore(c) ==
    /\ c \in ContentIds
    /\ resp' = WithArg(Response("score", Anonymous, "ok", <<c>>, FALSE),
                       Score(c))
    /\ UNCHANGED <<db, now, pending>>

\* the types_list the dashboard and the home page compute for user u, when
\* the stored text is not empty
ParseTypes(u) ==
    /\ Truthy(UserData(u).preferred_content_types)
    /\ resp' = WithArg(Response("parse", u, "ok", <<>>, FALSE),
                       ParsePreferenceList(UserData(u).preferred_content_types))
    /\ UNCHANGED <<db, now, pending>>

\* time passes between two requests
AdvanceClock(t) ==
    /\ t > now
    /\ now' = t
    /\ UNCHANGED <<db, resp>>
    /\ UNCHANGED <<pending, feedback>>


(***************************************************************************)
(* Specifications                                                          *)
(***************************************************************************)
\* the database create_sqlite_database leaves: the default users and
\* categories, every other table empty
Fresh ==
    /\ content = <<>>
    /\ nextContentId = 1
    /\ prefs = {}
    /\ interests = [u \in Users |-> NullText]
    /\ activities = {}
    /\ nextActivityId = 1
    /\ log = <<>>
    /\ now = 0
    /\ resp = Idle
    /\ pending = {}
    /\ feedback = {}

Init == Fresh

Next ==
    \/ \E u \in Uploaders, title \in Titles, type \in FormTypes,
          difficulty \in FormDifficulties, category_id \in FormCategories,
          publish_now \in BOOLEAN :
          upload(u, title, type, difficulty, category_id, publish_now)
    \/ \E u \in Uploaders, c \in 1..MaxContent, title \in Titles,
          type \in FormTypes, difficulty \in FormDifficulties,
          category_id \in FormCategories, publish_now \in BOOLEAN :
          edit(u, c, title, type, difficulty, category_id, publish_now)
    \/ \E u \in Admins, c \in 1..MaxContent : toggle_content(u, c)
    \/ \E u \in Users, difficulty \in FormPreferredDifficulties,
          types \in FormTypeLists, cats \in FormCategoryLists :
          settings(u, difficulty, types, cats)
    \/ \E u \in Users, list \in FormInterestLists : edit_profile(u, list)
    \/ \E u \in Users, fault \in Faults : dashboard(u, fault)
    \/ \E u \in Users \cup {Anonymous}, fault \in Faults : index(u, fault)
    \/ \E u \in Users, c \in 1..MaxContent : view(u, c)
    \/ \E u \in Users, fault \in Faults : for_you(u, fault)
    \/ \E u \in Users, fault \in Faults : api_refresh(u, fault)
    \/ \E u \in Users, fault \in Faults : trending(u, fault)
    \/ \E u \in Users, c \in 1..MaxContent, fault \in Faults :
          api_click(u, c, fault)
    \/ \E u \in Users, c \in 1..MaxContent,
          helpful \in {"true", "false", NULL}, fault \in Faults :
          api_feedback(u, c, helpful, fault)
    \/ \E t \in {1, 2, 3} : AdvanceClock(t)

Spec == Init /\ [][Next]_vars

(***************************************************************************)
(* Preference filtering on the dashboard and the home page: one student's  *)
(* preferences against the content one instructor uploads.  The database   *)
(* may hold a preference row written in the older text formats.            *)
(***************************************************************************)
Instructor == 2
Student == 3

Form(type, difficulty, category_id, publish_now) ==
    [type |-> type, difficulty |-> difficulty, category_id |-> category_id,
     publish_now |-> publish_now]

FilterForms ==
    {Form("video", "beginner", 6, TRUE), Form("document", "beginner", 6, TRUE),
     Form("video", "advanced", 6, TRUE), Form("video", "beginner", NullId, TRUE),
     Form("video", "beginner", 6, FALSE), Form("document", "advanced", 1, TRUE)}

SeedPrefRows ==
    {PrefRow("beginner", <<"video", COMMA, "document">>, <<"Mathematics">>),
     PrefRow("beginner", <<LB, DQ, "video", DQ, RB>>, NullText),
     PrefRow("advanced", NullText, <<LB, DQ, "Mathematics", DQ, RB>>)}

InitFilter ==
    /\ Fresh!1 /\ Fresh!2 /\ Fresh!4 /\ Fresh!5 /\ Fresh!6 /\ Fresh!7
    /\ Fresh!8 /\ Fresh!9 /\ Fresh!10 /\ Fresh!11
    /\ prefs \in {{}} \cup {{StoredPrefs(1, Student, row)} : row \in SeedPrefRows}

NextFilter ==
    \/ \E f \in FilterForms, title \in Titles :
          upload(Instructor, title, f.type, f.difficulty, f.category_id,
                 f.publish_now)
    \/ \E difficulty \in FormPreferredDifficulties, types \in FormTypeLists,
          cats \in FormCategoryLists :
          settings(Student, difficulty, types, cats)
    \/ \E fault \in {"none", "connection"} : dashboard(Student, fault)
    \/ \E fault \in {"none", "connection"} : index(Student, fault)

SpecFilter == InitFilter /\ [][NextFilter]_vars


(***************************************************************************)
(* Publication: content is uploaded, edited, unpublished and published     *)
(* again while a student views it and asks for every list of recommended   *)
(* content.                                                                *)
(***************************************************************************)
Admin == 1

PublishForms ==
    {Form("video", "beginner", 6, TRUE), Form("video", "beginner", 6, FALSE)}

InitPublish == Fresh

NextPublish ==
    \/ \E f \in PublishForms, title \in Titles :
          upload(Instructor, title, f.type, f.difficulty, f.category_id,
                 f.publish_now)
    \/ \E c \in 1..MaxContent, f \in PublishForms, title \in Titles :
          edit(Instructor, c, title, f.type, f.difficulty, f.category_id,
               f.publish_now)
    \/ \E c \in 1..MaxContent : toggle_content(Admin, c)
    \/ \E c \in 1..MaxContent : view(Student, c)
    \/ settings(Student, "beginner", <<>>, <<>>)
    \/ dashboard(Student, "none")
    \/ index(Student, "none")
    \/ for_you(Student, "none")
    \/ trending(Student, "none")

SpecPublish == InitPublish /\ [][NextPublish]_vars

(***************************************************************************)
(* The for-you feed: one student sets preferences, views content and asks  *)
(* for the feed, from the page and from the refresh API, with every        *)
(* failure the environment can inject.                                     *)
(***************************************************************************)
FeedForms ==
    {Form("video", "beginner", 6, TRUE), Form("document", "beginner", 6, TRUE)}

InitFeed == Fresh

NextFeed ==
    \/ \E f \in FeedForms, title \in Titles :
          upload(Instructor, title, f.type, f.difficulty, f.category_id,
                 f.publish_now)
    \/ settings(Student, "beginner", << <<"video">> >>, <<>>)
    \/ \E c \in 1..MaxContent : view(Student, c)
    \/ \E fault \in Faults : for_you(Student, fault)
    \/ \E fault \in Faults : api_refresh(Student, fault)

SpecFeed == InitFeed /\ [][NextFeed]_vars

(***************************************************************************)
(* The for-you feed and the viewing history: one student views and clicks  *)
(* content and asks for the feed, over a little more than thirty days.     *)
(***************************************************************************)
\* the first tick after the 30-day window of a view at the start
HistoryTimes == {(ViewedDays + 1) * TicksPerDay}

InitHistory == Fresh

NextHistory ==
    \/ \E f \in FeedForms, title \in Titles :
          upload(Instructor, title, f.type, f.difficulty, f.category_id,
                 f.publish_now)
    \/ \E c \in 1..MaxContent : view(Student, c)
    \/ \E c \in 1..MaxContent : api_click(Student, c, "none")
    \/ for_you(Student, "none")
    \/ api_refresh(Student, "none")
    \/ \E t \in HistoryTimes : AdvanceClock(t)

SpecHistory == InitHistory /\ [][NextHistory]_vars

(***************************************************************************)
(* Click and feedback tracking.  Nothing but a feed that returns rows      *)
(* writes the log, so the database starts with a log written earlier: up   *)
(* to MaxSeedLog rows, in the order of their insertion, no two at the same *)
(* time, for the content in the table.                                     *)
(***************************************************************************)
OtherStudent == 4
ClickContents == {1, 2}

\* ticks of day 0 (two of them) and of day 1; the requests come on day 1
\* (at its first tick and at the next), day 2 and day 8
SeedTimes == {0, 1, TicksPerDay}
ClickStart == TicksPerDay
ClickTimes ==
    {ClickStart + 1, 2 * TicksPerDay, (FeedbackDays + 1) * TicksPerDay}

SeedLogRows ==
    {LogRow(k[1], k[2], "rule_based", Rat(0, 1), Reason, t)
        : k \in {<<Student, 1>>, <<OtherStudent, 1>>, <<Student, 2>>},
          t \in SeedTimes}

SeedLogs ==
    {l \in UNION {[1..n -> SeedLogRows] : n \in 0..MaxSeedLog} :
        \A i \in 1..(Len(l) - 1) : l[i].created_at < l[i + 1].created_at}

InitClick ==
    /\ content = [c \in ClickContents |->
                     ContentRow(<<"algebra">>, "video", "beginner", 6, TRUE,
                                Instructor, 0)]
    /\ nextContentId = Cardinality(ClickContents) + 1
    /\ Fresh!3 /\ Fresh!4 /\ Fresh!5 /\ Fresh!6 /\ Fresh!9 /\ Fresh!10 /\ Fresh!11
    /\ log \in SeedLogs
    /\ now = ClickStart

NextClick ==
    \/ \E c \in ClickContents, fault \in {"none", "connection"} :
          api_click(Student, c, fault)
    \/ \E c \in ClickContents, helpful \in {"true", "false", NULL},
          fault \in {"none", "connection"} :
          api_feedback(Student, c, helpful, fault)
    \/ \E t \in ClickTimes : AdvanceClock(t)

SpecClick == InitClick /\ [][NextClick]_vars

\* requests that record activities, one after the other: item 1 is
\* published, item 2 is not
ActivityUsers == {Student}
ActivityTimes == {TicksPerDay}
ActivityForms == {"viewed", "completed", "bookmarked", "shared"}

InitActivity ==
    /\ content = [c \in ClickContents |->
                     ContentRow(<<"algebra">>, "video", "beginner", 6, c = 1,
                                Instructor, 0)]
    /\ nextContentId = Cardinality(ClickContents) + 1
    /\ Fresh!3 /\ Fresh!4 /\ Fresh!5 /\ Fresh!6 /\ Fresh!7 /\ Fresh!8
    /\ Fresh!9 /\ Fresh!10 /\ Fresh!11

NextActivity ==
    \/ \E u \in ActivityUsers, c \in ClickContents : view(u, c)
    \/ \E u \in ActivityUsers, c \in ClickContents :
          api_click(u, c, "none")
    \/ \E u \in ActivityUsers \cup {Anonymous}, c \in ClickContents,
          type \in ActivityForms, fault \in {"none", "connection"} :
          record_activity(u, c, type, fault)
    \/ \E u \in ActivityUsers, c \in ClickContents :
          toggle_bookmark(u, c, "none")
    \/ \E t \in ActivityTimes : AdvanceClock(t)

SpecActivity == InitActivity /\ [][NextActivity]_vars

\* requests that record activities and overlap: each reads, and writes at
\* some later time
InitRace == InitActivity

NextRace ==
    \/ \E r \in 1..MaxInFlight, c \in ClickContents,
          type \in {"viewed", "completed"} :
          record_activity_read(r, Student, c, type)
    \/ \E p \in pending : record_activity_write(p)
    \/ \E c \in ClickContents : toggle_bookmark(Student, c, "none")
    \/ \E t \in ActivityTimes : AdvanceClock(t)

SpecRace == InitRace /\ [][NextRace]_vars

\* the requests that touch the log or the ratings, on two published items
\* and a log that holds two rows for the same user and item
RatingForms ==
    {NoRating, TextRating, Number(0), Number(10), Number(50), Number(55),
     Number(60)}

InitLog ==
    /\ content = [c \in ClickContents |->
                     ContentRow(<<"algebra">>, "video", "beginner", 6, TRUE,
                                Instructor, 0)]
    /\ nextContentId = Cardinality(ClickContents) + 1
    /\ Fresh!3 /\ Fresh!4 /\ Fresh!5 /\ Fresh!6 /\ Fresh!9 /\ Fresh!10 /\ Fresh!11
    /\ log = << LogRow(Student, 1, "rule_based", Rat(0, 1), Reason, 0),
                LogRow(Student, 1, "rule_based", Rat(0, 1), Reason, 1) >>
    /\ now = ClickStart

NextLog ==
    \/ \E fault \in {"none", "insert"} : for_you(Student, fault)
    \/ api_refresh(Student, "none")
    \/ api_click(Student, 1, "none")
    \/ \E helpful \in {"true", NULL} :
          api_feedback(Student, 1, helpful, "none")
    \/ view(Student, 1)
    \/ \E u \in {Student, Anonymous}, rating \in RatingForms,
          fault \in {"none", "connection"} : rate(u, 1, rating, fault)
    \/ \E u \in {Student, Admin}, c \in ClickContents : delete_content(u, c)
    \/ toggle_content(Admin, 1)

SpecLog == InitLog /\ [][NextLog]_vars

\* the two students save their preferences and their profiles, starting
\* from the database create_sqlite_database leaves
InitSettings == Fresh

NextSettings ==
    \/ \E u \in Students, difficulty \in FormPreferredDifficulties,
          types \in FormTypeLists, cats \in FormCategoryLists :
          settings(u, difficulty, types, cats)
    \/ \E u \in Students, list \in FormInterestLists : edit_profile(u, list)

SpecSettings == InitSettings /\ [][NextSettings]_vars

\* the trending page over three published items, of which the last two
\* have the same rating, while activities are recorded and time passes
TrendingContents == {1, 2, 3}
TrendingTimes ==
    {1, TrendingDays * TicksPerDay + 1, (TrendingDays + 1) * TicksPerDay}

InitTrending ==
    /\ content = [c \in TrendingContents |->
                     [ContentRow(<<"algebra">>, "video", "beginner", 6, TRUE,
                                 Instructor, IF c = 3 THEN 1 ELSE 0)
                      EXCEPT !.average_rating =
                                 IF c = 1 THEN Rat(5, 1) ELSE Rat(3, 1),
                             !.rating_count = 1]]
    /\ nextContentId = Cardinality(TrendingContents) + 1
    /\ Fresh!3 /\ Fresh!4 /\ Fresh!5 /\ Fresh!6 /\ Fresh!7 /\ Fresh!8
    /\ Fresh!9 /\ Fresh!10 /\ Fresh!11

NextTrending ==
    \/ \E c \in TrendingContents : record_activity(Student, c, "viewed", "none")
    \/ toggle_content(Admin, 1)
    \/ settings(Student, "beginner", << <<"video">> >>, <<>>)
    \/ \E u \in {Student, OtherStudent} : trending(u, "none")
    \/ \E t \in TrendingTimes : AdvanceClock(t)

SpecTrending == InitTrending /\ [][NextTrending]_vars

\* the score of two items whose rating, downloads and views are drawn from
\* bounded sets
ScoreRatings == {Rat(0, 1), Rat(1, 1), Rat(7, 2), Rat(5, 1)}
ScoreCounts == 0..(MaxViews + 1)
ScoreRows ==
    {[ContentRow(<<"algebra">>, "video", "beginner", 6, TRUE, Instructor, 0)
      EXCEPT !.average_rating = r, !.download_count = d, !.view_count = v] :
        r \in ScoreRatings, d \in ScoreCounts, v \in ScoreCounts}

InitScore ==
    /\ content \in [ClickContents -> ScoreRows]
    /\ nextContentId = Cardinality(ClickContents) + 1
    /\ Fresh!3 /\ Fresh!4 /\ Fresh!5 /\ Fresh!6 /\ Fresh!7 /\ Fresh!8
    /\ Fresh!9 /\ Fresh!10 /\ Fresh!11

NextScore == \E c \in ClickContents : ComputeScore(c)

SpecScore == InitScore /\ [][NextScore]_vars

\* the preference resolver on stored lists of at most MaxTokens tokens,
\* written as Python prints a list, as JSON, and separated by commas
ParseTokens == {<<"video">>, <<"document">>, <<>>, <<SP>>}
TokenLists == UNION {[1..n -> ParseTokens] : n \in 0..MaxTokens}

RECURSIVE Join(_, _)
Join(list, sep) ==
    IF list = <<>> THEN <<>>
    ELSE IF Len(list) = 1 THEN Head(list)
    ELSE Head(list) \o sep \o Join(Tail(list), sep)

\* the list with every token between quotes q, in brackets
Bracketed(list, q) ==
    <<LB>> \o Join([i \in DOMAIN list |-> <<q>> \o list[i] \o <<q>>], <<COMMA>>)
    \o <<RB>>

Formats == {"python", "single", "double", "plain"}

Written(list, format) ==
    CASE format = "python" -> PyStr(list)
      [] format = "single" -> Bracketed(list, SQ)
      [] format = "double" -> Bracketed(list, DQ)
      [] format = "plain" -> Join(list, <<COMMA>>)

InitParse ==
    /\ InitLog!1 /\ InitLog!2
    /\ Fresh!4 /\ Fresh!5 /\ Fresh!6 /\ Fresh!7 /\ Fresh!8 /\ Fresh!9
    /\ Fresh!10 /\ Fresh!11
    /\ \E list \in TokenLists, format \in Formats :
          prefs = {StoredPrefs(1, Student,
                               PrefRow("mixed", Written(list, format), NullText))}

NextParse ==
    \/ ParseTypes(Student)
    \/ dashboard(Student, "none")
    \/ index(Student, "none")

SpecParse == InitParse /\ [][NextParse]_vars

\* every recommendation operation of one student, with and without the
\* storage connection, on two published items and a log of two rows
Outage == {"none", "connection"}

InitOutage == InitLog

NextOutage ==
    \/ \E fault \in Outage : for_you(Student, fault)
    \/ \E fault \in Outage : api_refresh(Student, fault)
    \/ \E fault \in Outage : trending(Student, fault)
    \/ \E fault \in Outage : dashboard(Student, fault)
    \/ \E fault \in Outage : index(Student, fault)
    \/ \E c \in ClickContents, fault \in Outage : api_click(Student, c, fault)
    \/ \E c \in ClickContents, fault \in Outage, helpful \in {"true", NULL} :
          api_feedback(Student, c, helpful, fault)
    \/ settings(Student, "beginner", << <<"video">> >>, <<>>)

SpecOutage == InitOutage /\ [][NextOutage]_vars

\* stored preference texts that are no list of names: an array that is
\* never closed, an array inside an array, a trailing comma
StoredTexts ==
    {NullText, <<LB, DQ, "video", DQ, RB>>, <<LB, "video">>,
     <<LB, LB, "1", RB, RB>>, <<"video", COMMA>>}

InitStored ==
    /\ InitLog!1 /\ InitLog!2
    /\ Fresh!5 /\ Fresh!6 /\ Fresh!7 /\ Fresh!8 /\ Fresh!9
    /\ Fresh!10 /\ Fresh!11
    /\ \E types \in StoredTexts, cats \in StoredTexts :
          prefs = {StoredPrefs(1, Student, PrefRow("mixed", types, cats))}
    /\ \E text \in StoredTexts :
          interests = [u \in Users |-> IF u = Student THEN text ELSE NullText]

NextStored ==
    \/ dashboard(Student, "none")
    \/ index(Student, "none")
    \/ for_you(Student, "none")

SpecStored == InitStored /\ [][NextStored]_vars

\* one student saves categories and interests and asks for the feed
InitRoundTrip == InitLog

NextRoundTrip ==
    \/ \E difficulty \in FormPreferredDifficulties, types \in FormTypeLists,
          cats \in FormCategoryLists :
          settings(Student, difficulty, types, cats)
    \/ \E list \in FormInterestLists : edit_profile(Student, list)
    \/ for_you(Student, "none")
    \/ dashboard(Student, "none")

SpecRoundTrip == InitRoundTrip /\ [][NextRoundTrip]_vars

\* ratings given and taken back by two students on the first item and on
\* the identifier the next upload will get, while an instructor uploads and
\* an admin deletes
RatingUsers == {Student, OtherStudent}
RatingValues == {Number(10), Number(40)}

InitRating ==
    /\ content = [c \in {1} |->
                     ContentRow(<<"algebra">>, "video", "beginner", 6, TRUE,
                                Instructor, 0)]
    /\ nextContentId = 2
    /\ Fresh!3 /\ Fresh!4 /\ Fresh!5 /\ Fresh!6 /\ Fresh!7 /\ Fresh!8
    /\ Fresh!9 /\ Fresh!10 /\ Fresh!11

NextRating ==
    \/ \E u \in RatingUsers, c \in 1..MaxContent, rating \in RatingValues :
          rate(u, c, rating, "none")
    \/ \E u \in RatingUsers \cup {Admin}, c \in 1..MaxContent,
          owner \in RatingUsers : delete_feedback(u, c, owner, "none")
    \/ upload(Instructor, <<"algebra">>, "video", "beginner", 6, TRUE)
    \/ \E c \in 1..MaxContent : delete_content(Admin, c)

SpecRating == InitRating /\ [][NextRating]_vars

\* one published item of the instructor: the admin hides and shows it, the
\* instructor edits it with 'publish now' ticked, students view and rate
\* it.  Nothing but toggle_content unpublishes the item.
InitHidden ==
    /\ content = [c \in {1} |->
                     ContentRow(<<"algebra">>, "video", "beginner", 6, TRUE,
                                Instructor, 0)]
    /\ nextContentId = 2
    /\ Fresh!3 /\ Fresh!4 /\ Fresh!5 /\ Fresh!6 /\ Fresh!7 /\ Fresh!8
    /\ Fresh!9 /\ Fresh!10 /\ Fresh!11

NextHidden ==
    \/ toggle_content(Admin, 1)
    \/ \E type \in FormTypes, difficulty \in FormDifficulties,
          category_id \in FormCategories :
          edit(Instructor, 1, <<"algebra">>, type, difficulty, category_id, TRUE)
    \/ \E u \in {Student, Instructor} : view(u, 1)
    \/ \E rating \in RatingValues : rate(Student, 1, rating, "none")
    \/ toggle_bookmark(Student, 1, "none")

SpecHidden == InitHidden /\ [][NextHidden]_vars

\* views that overlap: a student and the admin ask for the published item,
\* the unpublished one and one that does not exist
ViewUsers == {Student, Admin}

InitViews == InitActivity

NextViews ==
    \/ \E r \in 1..MaxInFlight, u \in ViewUsers, c \in 1..(MaxContent + 1) :
          view_read(r, u, c)
    \/ \E p \in pending : view_write(p)

SpecViews == InitViews /\ [][NextViews]_vars


(***************************************************************************)
(* Properties                                                              *)
(***************************************************************************)
\* the preference lists of user u as the dashboard reads them
PreferredTypes(u) ==
    IF Truthy(UserData(u).preferred_content_types)
    THEN ParsePreferenceList(UserData(u).preferred_content_types) ELSE <<>>

PreferredCategories(u) ==
    IF Truthy(UserData(u).preferred_categories)
    THEN ParsePreferenceList(UserData(u).preferred_categories) ELSE <<>>

TypeMatches(u, c) ==
    PreferredTypes(u) # <<>> => <<content[c].type>> \in Range(PreferredTypes(u))

DifficultyMatches(u, c) ==
    UserData(u).preferred_difficulty \notin {NULL, "mixed"}
        => content[c].difficulty_level = UserData(u).preferred_difficulty

CategoryMatches(u, c) ==
    PreferredCategories(u) # <<>> =>
        /\ content[c].category_id # NullId
        /\ CategoryName[content[c].category_id] \in Range(PreferredCategories(u))

PublishedContent == {c \in ContentIds : content[c].is_published}

\* the content the personalised query of page op has to select for user u
Eligible(op, u) ==
    {c \in PublishedContent :
        /\ TypeMatches(u, c) /\ DifficultyMatches(u, c)
        /\ op = "dashboard" => CategoryMatches(u, c)}

\* the scenario: difficulty 'beginner', content types ['video'], a published
\* beginner video and a document
VideoScenario(u, v) ==
    /\ UserData(u).preferred_difficulty = "beginner"
    /\ PreferredTypes(u) = << <<"video">> >>
    /\ PreferredCategories(u) = <<>>
    /\ Cardinality(ContentIds) = 2
    /\ v \in PublishedContent
    /\ content[v].type = "video" /\ content[v].difficulty_level = "beginner"
    /\ \A d \in ContentIds \ {v} : content[d].type = "document"

\* C1: every item of the dashboard's personalised result is published and
\* matches the content-type, difficulty ('mixed' and unset excepted) and
\* category preferences that are set; in the scenario the result is exactly
\* the video
C1_DashboardFilters ==
    (resp.op = "dashboard" /\ resp.status = "ok") =>
        /\ ~resp.fallback =>
              \A i \in DOMAIN resp.items :
                  /\ content[resp.items[i]].is_published
                  /\ TypeMatches(resp.user, resp.items[i])
                  /\ DifficultyMatches(resp.user, resp.items[i])
                  /\ CategoryMatches(resp.user, resp.items[i])
        /\ \A v \in ContentIds :
              VideoScenario(resp.user, v) => resp.items = <<v>>

C1_Witness ==
    /\ resp.op = "dashboard" /\ resp.status = "ok" /\ ~resp.fallback
    /\ \E v \in ContentIds : VideoScenario(resp.user, v) /\ resp.items = <<v>>

\* C5: on the dashboard and the home page the fallback result is returned
\* exactly when the personalised query selects nothing and no content-type
\* preference is stored; with a content-type preference and no match the
\* list is empty
C5_FallbackIff ==
    (resp.op \in {"dashboard", "index"} /\ resp.status = "ok"
     /\ resp.user \in Students) =>
        LET matching == Eligible(resp.op, resp.user)
            typed == Truthy(UserData(resp.user).preferred_content_types)
            limit == IF resp.op = "dashboard" THEN DashboardLimit ELSE HomeLimit
        IN  /\ resp.fallback <=> (matching = {} /\ ~typed)
            /\ resp.fallback =>
                  /\ Range(resp.items) \subseteq PublishedContent
                  /\ Len(resp.items) = Min(limit, Cardinality(PublishedContent))
            /\ (matching = {} /\ typed) => resp.items = <<>>
            /\ matching # {} =>
                  /\ Range(resp.items) \subseteq matching
                  /\ Len(resp.items) = Min(limit, Cardinality(matching))

C5_Witness ==
    /\ resp.op \in {"dashboard", "index"} /\ resp.status = "ok"
    /\ resp.fallback /\ resp.items # <<>>
    /\ ~Truthy(UserData(resp.user).preferred_content_types)
    /\ UserData(resp.user).preferred_difficulty = "beginner"

\* the for-you feed has answered, from the page or from the refresh API
FeedAnswer(r) == r.op \in {"for_you", "api_refresh"} /\ r.status = "ok"

\* user u has a 'viewed' activity for c in the trailing 30 days
RecentlyViewed(u, c) ==
    \E a \in activities :
        /\ a.user_id = u /\ a.content_id = c /\ a.activity_type = "viewed"
        /\ Day(a.created_at) >= Day(now) - ViewedDays

\* C2: every item of the for-you feed matches the content-type, difficulty
\* and category preferences that are set; in the scenario (difficulty
\* 'beginner', content types ['video'], a published beginner video and a
\* published document, nothing viewed) the feed is exactly the video
C2_FeedFilters ==
    (FeedAnswer(resp) /\ resp.fault = "none") =>
        /\ \A i \in DOMAIN resp.items :
              /\ TypeMatches(resp.user, resp.items[i])
              /\ DifficultyMatches(resp.user, resp.items[i])
              /\ CategoryMatches(resp.user, resp.items[i])
        /\ \A v \in ContentIds :
              (/\ VideoScenario(resp.user, v)
               /\ PublishedContent = ContentIds
               /\ ~Truthy(UserData(resp.user).interests)
               /\ \A c \in ContentIds : ~RecentlyViewed(resp.user, c))
              => resp.items = <<v>>

\* C3: for a user with no preference, no interest and no activity the
\* for-you feed is min(limit, number of published items) published items,
\* none left out scoring higher than one returned; so it is not empty when
\* published content exists
C3_EmptyPrefsTopScored ==
    (/\ FeedAnswer(resp) /\ resp.fault = "none"
     /\ PrefsOf(resp.user) = {}
     /\ ~Truthy(UserData(resp.user).interests)
     /\ \A a \in activities : a.user_id # resp.user) =>
        /\ Range(resp.items) \subseteq PublishedContent
        /\ Len(resp.items) = Min(DefaultLimit, Cardinality(PublishedContent))
        /\ \A c \in PublishedContent \ Range(resp.items) :
              \A i \in DOMAIN resp.items :
                  ~RatLess(Score(resp.items[i]), Score(c))

\* C4: every list of recommended content (dashboard, home page, for-you
\* feed, trending), personalised or fallback, holds only content that is
\* published when the list is made
C4_OnlyPublished ==
    (resp.op \in {"dashboard", "index", "for_you", "api_refresh", "trending"}) =>
        \A i \in DOMAIN resp.items :
            /\ resp.items[i] \in ContentIds
            /\ content[resp.items[i]].is_published

C4_Witness ==
    /\ resp.op \in {"dashboard", "index", "trending"}
    /\ resp.user \in Students
    /\ resp.items # <<>>
    /\ \E c \in ContentIds :
          ~content[c].is_published /\ content[c].view_count > 0

\* a step in which the for-you feed answers
FeedStep ==
    /\ resp'.op \in {"for_you", "api_refresh"}
    /\ resp' # resp \/ log' # log

C9_FailureGivesEmpty ==
    [][FeedStep =>
        /\ resp'.status = "ok"
        /\ resp'.fault # "none" => resp'.items = <<>> /\ log' = log
       ]_vars

C9_Witness ==
    /\ FeedAnswer(resp)
    /\ resp.fault \in {"connection", "preferences", "query"}
    /\ resp.items = <<>>
    /\ PublishedContent # {}

\* a step in which api_click, or api_feedback, has updated the log for
\* (u, c)
TrackingStep(op, u, c) ==
    /\ resp'.op = op /\ resp'.status = "ok"
    /\ resp'.user = u /\ resp'.items = <<c>>
    /\ resp' # resp \/ log' # log \/ activities' # activities

\* the rows of (u, c) in the log whose creation day is in the trailing days
Matching(u, c, days) ==
    {i \in DOMAIN log : /\ log[i].user_id = u /\ log[i].content_id = c
                        /\ Day(log[i].created_at) >= Day(now) - days}

\* the rows of S created last
MostRecent(S) ==
    {i \in S : \A j \in S : log[j].created_at <= log[i].created_at}

\* the log after the step differs from the log before it exactly in the
\* rows of S, whose flag has the value
FlagSet(S, flag, value) ==
    /\ DOMAIN log' = DOMAIN log
    /\ \A i \in DOMAIN log :
          log'[i] = IF i \in S THEN [log[i] EXCEPT ![flag] = value] ELSE log[i]

ClickActivity(u, c) ==
    {a \in activities' : /\ a.user_id = u /\ a.content_id = c
                         /\ a.activity_type = "viewed" /\ a.created_at = now}

C12_OlderRowsUntouched ==
    [][\A u \in Students, c \in ClickContents :
          /\ TrackingStep("api_click", u, c) =>
                \A i \in DOMAIN log :
                    now - log[i].created_at > ClickDays * TicksPerDay
                        => log'[i] = log[i]
          /\ TrackingStep("api_feedback", u, c) =>
                \A i \in DOMAIN log :
                    now - log[i].created_at > FeedbackDays * TicksPerDay
                        => log'[i] = log[i]
      ]_vars

\* C13: an api_click that follows an api_click for the same (user, content),
\* and an api_feedback that follows an api_feedback for the same (user,
\* content) with the same value, with no other request between them, leaves
\* was_clicked and was_helpful of every log row as they were
C13_Idempotent ==
    [][\A u \in Students, c \in ClickContents :
          \A op \in {"api_click", "api_feedback"} :
              (/\ TrackingStep(op, u, c)
               /\ resp.op = op /\ resp.status = "ok"
               /\ resp.user = u /\ resp.items = <<c>>
               /\ resp.arg = resp'.arg) =>
                  /\ DOMAIN log' = DOMAIN log
                  /\ \A i \in DOMAIN log :
                        /\ log'[i].was_clicked = log[i].was_clicked
                        /\ log'[i].was_helpful = log[i].was_helpful
      ]_vars

\* a click at the present time that follows an earlier click: a row that
\* has left the window is marked, and the activity carries the present time
C13_Witness ==
    /\ resp.op = "api_click" /\ resp.status = "ok"
    /\ \E i \in DOMAIN log :
          /\ log[i].user_id = resp.user /\ <<log[i].content_id>> = resp.items
          /\ log[i].was_clicked
          /\ Day(log[i].created_at) < Day(now) - ClickDays
    /\ \E j \in DOMAIN log :
          /\ log[j].user_id = resp.user /\ <<log[j].content_id>> = resp.items
          /\ log[j].was_clicked
          /\ Day(log[j].created_at) >= Day(now) - ClickDays
    /\ \E a \in activities :
          /\ a.user_id = resp.user /\ <<a.content_id>> = resp.items
          /\ a.created_at = now


\* the rows of the table for one triple
Triple(S, a) ==
    {b \in S : /\ b.user_id = a.user_id /\ b.content_id = a.content_id
               /\ b.activity_type = a.activity_type}

UniqueTriples == \A a \in activities : Triple(activities, a) = {a}

\* a request of u for item c that records an activity of the type, and is
\* answered with success
RecordingStep(u, c, type) ==
    /\ now' = now
    /\ resp'.user = u /\ resp'.items = <<c>> /\ resp'.status = "ok"
    /\ \/ resp'.op \in {"view", "api_click"} /\ type = "viewed"
       \/ resp'.op = "record_activity" /\ resp'.arg = type

\* C14: requests that do not overlap leave at most one user_activities row
\* for each (user_id, content_id, activity_type), and a 'viewed' or
\* 'completed' activity that is recorded again sets the time stamp of its
\* row and adds no row
C14_OneRowPerTriple ==
    /\ []UniqueTriples
    /\ [][\A a \in activities :
             a.activity_type \in {"viewed", "completed"} /\
             RecordingStep(a.user_id, a.content_id, a.activity_type)
             => activities' = (activities \ {a}) \cup
                                 {[a EXCEPT !.created_at = now]}]_vars

\* a 'completed' activity recorded on a later day than its row
C14_Witness ==
    /\ resp.op = "record_activity" /\ resp.status = "ok"
    /\ resp.arg = "completed"
    /\ \E a \in activities :
          /\ a.user_id = resp.user /\ <<a.content_id>> = resp.items
          /\ a.activity_type = "completed"
          /\ a.created_at = now /\ now > 0
          /\ a.id < nextActivityId - 1
    /\ Cardinality(activities) >= 3

\* C15: two requests that upsert the same triple and overlap never leave
\* two rows for it, because the second INSERT is rejected
C15_NoDuplicateUnderRace ==
    \A a \in activities : Cardinality(Triple(activities, a)) = 1

\* the columns of a log row that no request may change
Fixed(row) ==
    <<row.user_id, row.content_id, row.recommendation_type, row.score,
      row.reason, row.created_at>>

\* the number of log rows for user u and item c
RowsFor(l, u, c) ==
    Cardinality({i \in DOMAIN l : l[i].user_id = u /\ l[i].content_id = c})

Invalid(rating) ==
    \/ rating.kind # "number"
    \/ \A n \in 1..5 : rating.tenths # 10 * n

\* C18: a rate request of a signed-in user whose rating is missing or
\* outside 1..5, and an api_feedback request without the helpful flag, is
\* answered with 400 and writes nothing: the ratings, the content and the
\* log are unchanged
C18_InvalidRejected ==
    [][/\ resp'.op = "rate" /\ resp'.user # Anonymous /\ resp' # resp
          /\ Invalid(resp'.arg)
          => resp'.status = "400" /\ UNCHANGED <<feedback, content, log>>
       /\ resp'.op = "api_feedback" /\ resp' # resp /\ resp'.arg = NULL
          => resp'.status = "400" /\ UNCHANGED <<feedback, content, log>>
      ]_vars

\* C17: each user has at most one user_preferences row: none before the
\* first save of the preferences form, the first save inserts it, and every
\* later save succeeds and updates that row without adding one
C17_OnePrefsRow ==
    /\ [](\A u \in Users : Cardinality(PrefsOf(u)) <= 1)
    /\ [][\A u \in Users :
             IF resp'.op = "settings" /\ resp'.user = u
             THEN /\ resp'.status = "ok"
                  /\ Cardinality(PrefsOf(u)') = 1
                  /\ PrefsOf(u) # {} =>
                        /\ {p.id : p \in PrefsOf(u)'} = {p.id : p \in PrefsOf(u)}
                        /\ Cardinality(prefs') = Cardinality(prefs)
             ELSE PrefsOf(u)' = PrefsOf(u)]_vars

\* a student whose row is older than the other student's has saved again
C17_Witness ==
    /\ resp.op = "settings" /\ resp.status = "ok"
    /\ \E p, q \in prefs :
          /\ p.user_id = resp.user /\ q.user_id # resp.user /\ p.id < q.id
          /\ p.preferred_content_types # NullText

\* the number of activities on item c in the trailing 7 days
TrailingActivities(c) ==
    Cardinality({a \in activities :
                    /\ a.content_id = c
                    /\ a.created_at >= now - TrendingDays * TicksPerDay})

\* item a may not come after item b: more activities, or as many and a
\* higher rating, or both equal and created later
RanksAbove(a, b) ==
    \/ TrailingActivities(a) > TrailingActivities(b)
    \/ /\ TrailingActivities(a) = TrailingActivities(b)
       /\ \/ RatLess(content[b].average_rating, content[a].average_rating)
          \/ /\ RatEq(content[a].average_rating, content[b].average_rating)
             /\ content[a].created_at > content[b].created_at

\* C19: the trending page lists the published items, at most 20, by the
\* number of activities in the trailing 7 days descending, then by average
\* rating descending, then by creation time descending, whoever asks and
\* whatever their preferences, and leaves the log as it is
C19_TrendingOrder ==
    [][resp'.op = "trending" /\ resp'.status = "ok" /\ now' = now
       /\ UNCHANGED <<content, activities>>
       => LET items == resp'.items
          IN  /\ Range(items) \subseteq PublishedContent
              /\ Len(items) = Min(TrendingLimit, Cardinality(PublishedContent))
              /\ \A i, j \in DOMAIN items :
                    i < j => items[i] # items[j] /\ ~RanksAbove(items[j], items[i])
              /\ log' = log
      ]_vars

\* items c and d agree on two of rating, downloads and views, and d is at
\* least c on the third
OneInputRaised(c, d) ==
    LET RatingEq == RatEq(content[c].average_rating, content[d].average_rating)
        DownloadsEq == content[c].download_count = content[d].download_count
        ViewsEq == content[c].view_count = content[d].view_count
    IN  \/ /\ DownloadsEq /\ ViewsEq
           /\ ~RatLess(content[d].average_rating, content[c].average_rating)
        \/ /\ RatingEq /\ ViewsEq
           /\ content[c].download_count <= content[d].download_count
        \/ /\ RatingEq /\ DownloadsEq
           /\ content[c].view_count <= content[d].view_count

\* C20: the score is 0.3 * average_rating + 0.02 * download_count +
\* 0.01 * view_count, and it does not fall when one of the three inputs
\* rises while the other two stay
C20_ScoreMonotone ==
    resp.op = "score" =>
        LET c == resp.items[1]
            rating == content[c].average_rating
        IN  \* in hundredths: 30 per rating point, 2 per download, 1 per view
            /\ resp.arg.num * rating.den =
                  (30 * rating.num
                     + 2 * content[c].download_count * rating.den
                     + 1 * content[c].view_count * rating.den)
                  * resp.arg.den
            /\ \A d \in ContentIds :
                  OneInputRaised(c, d) => ~RatLess(Score(d), resp.arg)

\* the score of an item was computed while the other item has the same
\* rating and downloads and more views, and scores higher
C20_Witness ==
    /\ resp.op = "score"
    /\ \E d \in ContentIds :
          /\ OneInputRaised(resp.items[1], d)
          /\ content[d].view_count > content[resp.items[1]].view_count
          /\ RatLess(resp.arg, Score(d))
          /\ content[d].average_rating = Rat(7, 2)
          /\ content[d].download_count > 0

\* C21: without a storage connection every recommendation operation ends
\* without raising, writes nothing and gives an empty result: the feed, the
\* trending page, the dashboard and the home page list nothing, api_click
\* and api_feedback answer with a failure
C21_OutageNeutral ==
    [][resp'.fault = "connection" =>
          /\ UNCHANGED db
          /\ resp'.items = <<>>
          /\ resp'.status # "raised"
          /\ resp'.op \in {"api_click", "api_feedback"}
                => resp'.status = "error"
      ]_vars

\* a click without connection, on an item whose log rows are inside the
\* window and unmarked and for which no activity is recorded
C21_Witness ==
    /\ resp.fault = "connection" /\ resp.op = "api_click"
    /\ activities = {}
    /\ \E i \in DOMAIN log :
          /\ log[i].user_id = resp.user /\ ~log[i].was_clicked
          /\ InWindow(log[i].created_at, ClickDays)

\* the tokens of a list that are neither empty nor white space
Kept(list) == {list[i] : i \in {j \in DOMAIN list : Strip(list[j], {SP}) # <<>>}}

\* C22: a stored list of tokens parses to the set of its tokens that are
\* not empty or white space, whether it is written as ['a','b'], as
\* ["a","b"] or as a,b
C22_ParsePolicy ==
    resp.op = "parse" =>
        \A list \in TokenLists, format \in Formats :
            UserData(resp.user).preferred_content_types = Written(list, format)
            => Range(resp.arg) = Kept(list)


\* C23: whatever text a preference field holds, the dashboard, the home page
\* and the for-you feed answer with recommendations and not with an error
\* result.
C23_StoredTextTolerated ==
    (resp.op \in {"dashboard", "index", "for_you"} /\ resp.fault = "none")
        => resp.status = "ok"

\* the same for the dashboard and the home page alone
C23_PagesTolerant ==
    (resp.op \in {"dashboard", "index"} /\ resp.fault = "none")
        => resp.status = "ok"

\* C24: the statement get_rule_based_recommendations executes holds as many
\* placeholders as parameters are bound to it; the predicates of WHERE are
\* the filters, each with its own parameters, and LIMIT holds the one
\* placeholder the limit is bound to.
C24_PlaceholdersBound ==
    (resp.op \in {"for_you", "api_refresh"} /\ resp.fault = "none") =>
        LET w == WhereConditions(resp.user)
            stmt == FinalQuery(w.terms)
            params == Append(w.params, IdText(DefaultLimit))
        IN  /\ Markers(stmt.where) + Markers(stmt.limit) = Len(params)
            /\ stmt.where = w.terms
            /\ stmt.limit = <<Marker>>

\* the filter of the given kind is part of the for-you conditions of u
FilterActive(u, kind) ==
    \E i \in DOMAIN WhereConditions(u).terms :
        WhereConditions(u).terms[i].kind = kind

\* C25: a non-empty category list saved through settings, and a non-empty
\* interest list saved through edit_profile, is read back by
\* get_rule_based_recommendations as the same list, and its filter is part
\* of the next for-you computation.
C25_RoundTrip ==
    /\ \A list \in FormCategoryLists \ {<<>>} :
          (/\ resp.op = "settings" /\ resp.status = "ok"
           /\ UserData(resp.user).preferred_categories = PyStr(list))
          => /\ LoadedList(UserData(resp.user).preferred_categories) = list
             /\ FilterActive(resp.user, "category_id IN")
    /\ \A list \in FormInterestLists \ {<<>>} :
          (/\ resp.op = "edit_profile" /\ resp.status = "ok"
           /\ UserData(resp.user).interests = PyStr(list))
          => /\ LoadedList(UserData(resp.user).interests) = list
             /\ FilterActive(resp.user, "title LIKE")

\* the count and the average of item c are those of its feedback rows
Aggregated(c) ==
    /\ content[c].rating_count = Cardinality(FeedbackOf(feedback, c))
    /\ RatEq(content[c].average_rating,
             AverageRating(FeedbackOf(feedback, c)))

\* a rate or a delete_feedback has just succeeded
RatingDone == resp.op \in {"rate", "delete_feedback"} /\ resp.status = "ok"

\* C26: after successful rate and delete_feedback operations every item's
\* rating_count is the number of its feedback rows and its average_rating
\* their mean, 0 when there are none; a (content, user) pair has at most one
\* row, which holds the rating given last.
C26_RatingAggregates ==
    RatingDone =>
        /\ \A c \in ContentIds : Aggregated(c)
        /\ \A f, g \in feedback :
              (f.content_id = g.content_id /\ f.user_id = g.user_id) => f = g
        /\ resp.op = "rate" =>
              \E f \in feedback :
                 /\ f.content_id = resp.items[1] /\ f.user_id = resp.user
                 /\ f.rating = PyInt(resp.arg.tenths)

\* the same for the item the operation was about
C26_OperatedItem ==
    (RatingDone /\ resp.items[1] \in ContentIds) =>
        /\ Aggregated(resp.items[1])
        /\ \A f, g \in feedback :
              (f.content_id = g.content_id /\ f.user_id = g.user_id) => f = g

\* the content ids the rows of user_activities, content_feedback and the
\* recommendation log refer to
Referenced ==
    {a.content_id : a \in activities} \cup {f.content_id : f \in feedback}
    \cup {log[i].content_id : i \in DOMAIN log}

\* C27: once delete_content has deleted an item, no row of user_activities,
\* content_feedback or the recommendation log refers to it, and in every
\* state the content of each such row exists.
C27_NoDanglingRows ==
    /\ (resp.op = "delete_content" /\ resp.status = "ok")
          => resp.items[1] \notin Referenced
    /\ Referenced \subseteq ContentIds

\* the activities and the feedback of an item are gone once delete_content
\* has deleted it
C27_DeletedWithContent ==
    (resp.op = "delete_content" /\ resp.status = "ok") =>
        /\ \A a \in activities : a.content_id # resp.items[1]
        /\ \A f \in feedback : f.content_id # resp.items[1]

\* C28: an item an admin has unpublished stays unpublished until an admin
\* publishes it: every step that sets is_published of an item back to true
\* is the request of an admin.  (Under SpecHidden nothing but
\* toggle_content unpublishes.)
C28_HiddenStaysHidden ==
    [][\A c \in ContentIds \cap DOMAIN content' :
          (~content[c].is_published /\ content'[c].is_published)
              => resp'.user \in Admins]_vars

\* the requests for item c that a step completes
Completed(c) == {p \in pending \ pending' : p.content_id = c}

\* C29: whatever the order in which overlapping views read and write, the
\* view_count of an item grows by one with each request that found it and
\* with nothing else; a request that finds no item (none with that id, or an
\* unpublished one for a user who is no admin) leaves view_count and
\* user_activities as they were.
C29_ViewsCounted ==
    [][/\ \A c \in ContentIds :
             content'[c].view_count
                 = content[c].view_count + Cardinality(Completed(c))
       /\ (resp'.op = "view" /\ resp'.status = "not_found"
           /\ pending' = pending)
             => UNCHANGED <<content, activities>>]_vars

\* a view has been counted while another request, which found the same
\* item before that, is still on its way
C29_Witness ==
    /\ resp.op = "view" /\ resp.status = "ok"
    /\ \E p \in pending :
          /\ p.content_id = resp.items[1]
          /\ content[p.content_id].view_count = p.seen + 1

\* the 'bookmarked' rows of user u for item c
Bookmarks(S, u, c) ==
    {a \in S : /\ a.user_id = u /\ a.content_id = c
               /\ a.activity_type = "bookmarked"}

\* the step is a toggle_bookmark that was served
ToggleStep == /\ resp'.op = "toggle_bookmark" /\ resp'.status = "ok"
              /\ resp' # resp

=========================================================================
